---- MODULE Spec2Model ----
(***************************************************************************)
(* RecallTrial: reminder planning (computeReminders) and the reminder      *)
(* dispatch sweep (processRemindersNow) of server/storage.ts, together     *)
(* with the trial-creation and trial-cancel requests that write the same   *)
(* rows, the key checks of the routes that run the sweep, and the planner  *)
(* of the fixed 3-day/1-day variant (computeReminderTimeInUTC of           *)
(* server/routes.ts).                                                      *)
(*                                                                         *)
(* Time is counted in seconds since 2025-06-01T00:00:00Z (the source       *)
(* counts milliseconds; every quantity of the planner is a whole number    *)
(* of seconds).  A civil date is the number of days since 2025-06-01.      *)
(* A nullable column is a sequence: <<>> is null, <<v>> holds v.           *)
(***************************************************************************)
EXTENDS Integers, Sequences, FiniteSets, TLC

VARIABLES
    clock,      \* the wall clock read by `new Date()`
    hourCycle,  \* how Intl.DateTimeFormat prints the hour of local midnight
    env,        \* process.env: the keys CRON_KEY and DEBUG_KEY, <<>> when unset
    users,      \* table users:     id -> row
    trials,     \* table trials:    sequence of rows, id = index
    reminders,  \* table reminders: sequence of rows, id = index
    sweep,      \* processRemindersNow invocations: trigger -> local state
    creator,    \* the POST /api/trials requests in flight: request -> local state
    canceller,  \* the POST /api/trials/:id/cancel request in flight
    hist,       \* history, per reminder id: what was observed being done to it
    planLog,    \* history, per trial id: the computeReminders call made for it
    cancelOk    \* history: trials for which a cancel request answered 200

vars == <<clock, hourCycle, env, users, trials, reminders, sweep, creator,
          canceller, hist, planLog, cancelOk>>

----------------------------------------------------------------------------
(* Bounds of the model *)

\* trial rows the trials table can hold (creation requests that insert) in
\* the dispatch specification
MaxTrials == 1
\* the same in the planning specification
MaxPlanned == 2

----------------------------------------------------------------------------
(* Time *)

SecondsPerMinute == 60
SecondsPerHour == 60 * SecondsPerMinute
SecondsPerDay == 24 * SecondsPerHour

Null == <<>>
Some(v) == <<v>>

\* Date.prototype.getUTCHours / getUTCMinutes, also used for the wall clock
\* of a zone once the zone's offset is added
HourOf(t) == (t \div SecondsPerHour) % 24
MinuteOf(t) == (t \div SecondsPerMinute) % 60

\* The zones without daylight saving time the model knows, with their offset
\* from UTC in minutes.
ZoneOffsetMinutes ==
    [z \in {"UTC", "Asia/Qatar", "Asia/Kolkata", "America/Bogota",
            "Pacific/Kiritimati"} |->
        CASE z = "UTC" -> 0
          [] z = "Asia/Qatar" -> 180
          [] z = "Asia/Kolkata" -> 330
          [] z = "America/Bogota" -> -300
          [] z = "Pacific/Kiritimati" -> 840]

\* The zone with daylight saving time the model knows: America/New_York is
\* at -04:00 until 2025-11-02T06:00:00Z (day 154 of the timeline) and at
\* -05:00 from then on.
DstZones == {"America/New_York"}
DstEndsAt == 154 * SecondsPerDay + 6 * SecondsPerHour

\* the offset from UTC, in minutes, the zone data gives for a zone at an
\* instant
OffsetMinutesAt(timezone, t) ==
    IF timezone \in DstZones
    THEN (IF t < DstEndsAt THEN -240 ELSE -300)
    ELSE ZoneOffsetMinutes[timezone]

\* Any other name is one that Intl.DateTimeFormat rejects with a RangeError.
KnownZones == DOMAIN ZoneOffsetMinutes \cup DstZones
Zones == DOMAIN ZoneOffsetMinutes \cup {"Mars/Olympus"}
HourCycles == {"h23", "h24"}

\* formatter.formatToParts(refDate): the "hour" and "minute" parts.  With
\* hour12: false the en-US formatter prints the first hour of the day as
\* "00" or as "24", depending on the ICU data of the runtime.
FormatHour(timezone, refDate, hc) ==
    LET h == HourOf(refDate + OffsetMinutesAt(timezone, refDate) * SecondsPerMinute)
    IN IF h = 0 /\ hc = "h24" THEN 24 ELSE h

FormatMinute(timezone, refDate) ==
    MinuteOf(refDate + OffsetMinutesAt(timezone, refDate) * SecondsPerMinute)

\* mutant of getTimezoneOffsetMs: a zone that cannot be resolved gets the
\* offset of the default zone, Asia/Qatar
getTimezoneOffsetMsDefaultZone(timezone, refDate, hc) ==
    IF timezone \notin KnownZones
    THEN 3 * SecondsPerHour
    ELSE ((FormatHour(timezone, refDate, hc) - HourOf(refDate)) * 60
            + (FormatMinute(timezone, refDate) - MinuteOf(refDate)))
         * SecondsPerMinute

\* getTimezoneOffsetMs, in seconds
getTimezoneOffsetMs(timezone, refDate, hc) ==
    IF timezone \notin KnownZones
    THEN 0
    ELSE LET localH == FormatHour(timezone, refDate, hc)
             localM == FormatMinute(timezone, refDate)
             utcH == HourOf(refDate)
             utcM == MinuteOf(refDate)
         IN ((localH - utcH) * 60 + (localM - utcM)) * SecondsPerMinute

\* new Date(endDateStr + "T23:59:59.000Z").getTime()
EndOfDayUtc(endDate) == endDate * SecondsPerDay + (SecondsPerDay - 1)

\* endDateTimeUtc of computeReminders
EndDateTimeUtc(endDate, now, timezone, hc) ==
    EndOfDayUtc(endDate) - getTimezoneOffsetMs(timezone, now, hc)

----------------------------------------------------------------------------
(* computeReminders *)

\* minFutureMs, in seconds
minFutureMs == 2 * SecondsPerMinute

Offset(h, t) == [hoursBeforeEnd |-> h, type |-> t]

\* mutant of SelectOffsets: the 72h/24h table whenever the trial is not over
SelectOffsetsStandard(timeLeft) ==
    IF timeLeft <= 0 THEN << >>
    ELSE << Offset(72, "THREE_DAYS"), Offset(24, "ONE_DAY") >>

\* the offset table computeReminders selects for timeLeft (seconds); the
\* source compares timeLeftHours = timeLeftMs / 3600000 with 0, 24 and 72
SelectOffsets(timeLeft) ==
    IF timeLeft <= 0 THEN << >>
    ELSE IF timeLeft < 24 * SecondsPerHour
         THEN << Offset(6, "SIX_HOURS"), Offset(1, "ONE_HOUR") >>
    ELSE IF timeLeft < 72 * SecondsPerHour
         THEN << Offset(24, "TWENTY_FOUR_HOURS"), Offset(3, "THREE_HOURS") >>
    ELSE << Offset(72, "THREE_DAYS"), Offset(24, "ONE_DAY") >>

RemindAtOf(end, offset) == end - offset.hoursBeforeEnd * SecondsPerHour

\* mutant of KeepOffset: a candidate that fires exactly at the margin is kept
KeepOffsetAtMargin(remindAt, now) == remindAt >= now + minFutureMs

\* the test of the loop of computeReminders that keeps a candidate
KeepOffset(remindAt, now) == remindAt > now + minFutureMs

\* mutant of FilterOffsets: each kept candidate is put in front of the
\* results instead of being pushed at their end
RECURSIVE FilterOffsetsUnshift(_, _, _)
FilterOffsetsUnshift(offsets, end, now) ==
    IF offsets = << >> THEN << >>
    ELSE LET remindAt == RemindAtOf(end, Head(offsets))
             rest == FilterOffsetsUnshift(Tail(offsets), end, now)
         IN IF KeepOffset(remindAt, now)
            THEN rest \o << [remindAt |-> remindAt, type |-> Head(offsets).type] >>
            ELSE rest

RECURSIVE FilterOffsets(_, _, _)
FilterOffsets(offsets, end, now) ==
    IF offsets = << >> THEN << >>
    ELSE LET remindAt == RemindAtOf(end, Head(offsets))
             rest == FilterOffsets(Tail(offsets), end, now)
         IN IF KeepOffset(remindAt, now)
            THEN << [remindAt |-> remindAt, type |-> Head(offsets).type] >> \o rest
            ELSE rest

computeReminders(endDate, now, timezone, hc) ==
    LET end == EndDateTimeUtc(endDate, now, timezone, hc)
    IN FilterOffsets(SelectOffsets(end - now), end, now)

----------------------------------------------------------------------------
(* computeReminderTimeInUTC, the planner of the fixed 3-day/1-day variant  *)
(* (server/routes.ts)                                                      *)

\* The instant of the reminder daysBefore days before endDate.  targetDate
\* is noon UTC of the reminder's day; the zone's offset is taken as the
\* difference of the hour the formatter prints for targetDate and its UTC
\* hour; setUTCHours(10 - offsetHours, 0, 0, 0) sets the time of day, an hour
\* outside 0..23 moving the date.  A zone the formatter rejects gives 10:00
\* UTC of the reminder's day.
computeReminderTimeInUTC(endDate, daysBefore, timezone, hc) ==
    IF timezone \notin KnownZones
    THEN (endDate - daysBefore) * SecondsPerDay + 10 * SecondsPerHour
    ELSE LET targetDate == (endDate - daysBefore) * SecondsPerDay + 12 * SecondsPerHour
             localHour == FormatHour(timezone, targetDate, hc)
             offsetHours == localHour - HourOf(targetDate)
         IN (targetDate \div SecondsPerDay) * SecondsPerDay
                + (10 - offsetHours) * SecondsPerHour

\* the reminders POST /api/trials of the fixed variant creates: THREE_DAYS
\* and ONE_DAY, each when its instant is later than now
FixedPlan(endDate, now, timezone, hc) ==
    LET threeDayRemind == computeReminderTimeInUTC(endDate, 3, timezone, hc)
        oneDayRemind == computeReminderTimeInUTC(endDate, 1, timezone, hc)
    IN (IF threeDayRemind > now
        THEN << [remindAt |-> threeDayRemind, type |-> "THREE_DAYS"] >>
        ELSE << >>)
       \o (IF oneDayRemind > now
           THEN << [remindAt |-> oneDayRemind, type |-> "ONE_DAY"] >>
           ELSE << >>)

----------------------------------------------------------------------------
(* The tables *)

UserIds == {"u1"}

FREE_TRIAL_LIMIT == 3

\* trial rows the trials table can hold in the limit specification: one more
\* than the limit of the FREE plan
MaxCreated == FREE_TRIAL_LIMIT + 1

TrialIds ==
    1..(CHOOSE n \in {MaxTrials, MaxPlanned, MaxCreated} :
            \A m \in {MaxTrials, MaxPlanned, MaxCreated} : m <= n)
\* computeReminders plans at most two reminders for a trial
ReminderIds == 1..(2 * Cardinality(TrialIds))

\* getTrialLimit: <<>> is null, no limit
getTrialLimit(plan) ==
    IF plan \in {"PLUS", "PRO", "PREMIUM"} THEN Null ELSE Some(FREE_TRIAL_LIMIT)

\* countActiveTrials
countActiveTrials(userId) ==
    Cardinality({t \in DOMAIN trials :
                    trials[t].userId = userId /\ trials[t].status = "ACTIVE"})

\* the row createTrial inserts (the route passes status ACTIVE; canceledAt
\* is left null)
NewTrial(userId, endDate) ==
    [userId |-> userId, endDate |-> endDate, status |-> "ACTIVE", canceledAt |-> Null]

\* the row createReminder inserts; status, sentAt, providerMessageId and
\* lastError take the column defaults
NewReminder(trialId, userId, plan) ==
    [trialId |-> trialId, userId |-> userId, remindAt |-> plan.remindAt,
     type |-> plan.type, status |-> "PENDING", sentAt |-> Null,
     providerMessageId |-> Null, lastError |-> Null]

\* What was observed of a reminder: how many claims of it succeeded, how
\* often sendReminderEmail was invoked for it, the status its trial had
\* when it was claimed, and what the last email built for it said of the
\* time left ("" while none was built)
NoHist == [claimWon |-> 0, invoked |-> 0, claimTrialStatus |-> "none", said |-> ""]

\* a history counter stops counting at 2
Bump(n) == IF n < 2 THEN n + 1 ELSE n

----------------------------------------------------------------------------
(* POST /api/trials *)

CreatorIdle(response) ==
    [pc |-> "idle", userId |-> "u1", timezone |-> "", trialId |-> 0,
     plan |-> << >>, k |-> 0, response |-> response]

\* getUserById, getTrialLimit and countActiveTrials: 403 when the user is at
\* the limit of the plan
CreateBegin(c, maxTrials) ==
    /\ creator[c].pc = "idle"
    /\ Len(trials) < maxTrials
    /\ \E u \in UserIds :
        LET limit == getTrialLimit(users[u].plan)
        IN IF limit # Null /\ countActiveTrials(u) >= limit[1]
           THEN creator' = [creator EXCEPT ![c] = CreatorIdle("403")]
           ELSE creator' = [creator EXCEPT ![c] =
                                [CreatorIdle("none") EXCEPT
                                    !.pc = "checked", !.userId = u,
                                    !.timezone = users[u].timezone]]
    /\ UNCHANGED <<clock, hourCycle, env, users, trials, reminders, sweep, canceller,
                   hist, planLog, cancelOk>>

\* user.timezone || "Asia/Qatar"
TimezoneOrDefault(timezone) == IF timezone = "" THEN "Asia/Qatar" ELSE timezone

\* the date check, createTrial, `now = new Date()` and computeReminders
CreateTrial(c, endDates, startDates) ==
    /\ creator[c].pc = "checked"
    /\ \E endDate \in endDates, startDate \in startDates :
        IF endDate < startDate
        THEN /\ creator' = [creator EXCEPT ![c] = CreatorIdle("400")]
             /\ UNCHANGED <<trials, planLog>>
        ELSE LET tz == TimezoneOrDefault(creator[c].timezone)
                 plan == computeReminders(endDate, clock, tz, hourCycle)
             IN /\ trials' = Append(trials, NewTrial(creator[c].userId, endDate))
                /\ planLog' = Append(planLog,
                        [endDate |-> endDate, now |-> clock, timezone |-> tz,
                         plan |-> plan])
                /\ creator' = [creator EXCEPT ![c].pc = "reminders",
                                   ![c].trialId = Len(trials) + 1,
                                   ![c].plan = plan, ![c].k = 1]
    /\ UNCHANGED <<clock, hourCycle, env, users, reminders, sweep, canceller, hist,
                   cancelOk>>

\* one turn of the loop over reminderPlans: createReminder
CreateReminder(c) ==
    /\ creator[c].pc = "reminders"
    /\ creator[c].k <= Len(creator[c].plan)
    /\ reminders' = Append(reminders,
            NewReminder(creator[c].trialId, creator[c].userId,
                        creator[c].plan[creator[c].k]))
    /\ creator' = [creator EXCEPT ![c].k = @ + 1]
    /\ UNCHANGED <<clock, hourCycle, env, users, trials, sweep, canceller, hist,
                   planLog, cancelOk>>

\* createTrial throws: the catch of the route answers 500
CreateTrialThrows(c, endDates, startDates) ==
    /\ creator[c].pc = "checked"
    /\ \E endDate \in endDates, startDate \in startDates : endDate >= startDate
    /\ creator' = [creator EXCEPT ![c] = CreatorIdle("500")]
    /\ UNCHANGED <<clock, hourCycle, env, users, trials, reminders, sweep, canceller,
                   hist, planLog, cancelOk>>

\* createReminder throws in a turn of the loop: the catch of the route
\* answers 500; what was inserted before stays
CreateReminderThrows(c) ==
    /\ creator[c].pc = "reminders"
    /\ creator[c].k <= Len(creator[c].plan)
    /\ creator' = [creator EXCEPT ![c] =
                        [CreatorIdle("500") EXCEPT !.trialId = creator[c].trialId]]
    /\ UNCHANGED <<clock, hourCycle, env, users, trials, reminders, sweep, canceller,
                   hist, planLog, cancelOk>>

\* mutant of CreateRespond: a request without reminders answers 500
CreateRespondNeedsReminders(c) ==
    /\ creator[c].pc = "reminders"
    /\ creator[c].k > Len(creator[c].plan)
    /\ creator' = [creator EXCEPT ![c] =
                        [CreatorIdle(IF creator[c].plan = << >> THEN "500" ELSE "200")
                            EXCEPT !.trialId = creator[c].trialId]]
    /\ UNCHANGED <<clock, hourCycle, env, users, trials, reminders, sweep, canceller,
                   hist, planLog, cancelOk>>

\* res.json(trial)
CreateRespond(c) ==
    /\ creator[c].pc = "reminders"
    /\ creator[c].k > Len(creator[c].plan)
    /\ creator' = [creator EXCEPT ![c] =
                        [CreatorIdle("200") EXCEPT !.trialId = creator[c].trialId]]
    /\ UNCHANGED <<clock, hourCycle, env, users, trials, reminders, sweep, canceller,
                   hist, planLog, cancelOk>>

\* POST /api/trials of the fixed variant (server/routes.ts): the date check,
\* createTrial, getUserById, `now = new Date()` and the two
\* computeReminderTimeInUTC calls; the route has no limit on active trials
CreateTrialFixed(c, maxTrials, endDates, startDates) ==
    /\ creator[c].pc = "idle"
    /\ Len(trials) < maxTrials
    /\ \E u \in UserIds, endDate \in endDates, startDate \in startDates :
        IF endDate < startDate
        THEN /\ creator' = [creator EXCEPT ![c] = CreatorIdle("400")]
             /\ UNCHANGED <<trials, planLog>>
        ELSE LET tz == TimezoneOrDefault(users[u].timezone)
                 plan == FixedPlan(endDate, clock, tz, hourCycle)
             IN /\ trials' = Append(trials, NewTrial(u, endDate))
                /\ planLog' = Append(planLog,
                        [endDate |-> endDate, now |-> clock, timezone |-> tz,
                         plan |-> plan])
                /\ creator' = [creator EXCEPT ![c] =
                        [CreatorIdle("none") EXCEPT
                            !.pc = "reminders", !.userId = u, !.timezone = tz,
                            !.trialId = Len(trials) + 1, !.plan = plan, !.k = 1]]
    /\ UNCHANGED <<clock, hourCycle, env, users, reminders, sweep, canceller, hist,
                   cancelOk>>

----------------------------------------------------------------------------
(* The clock *)

\* time passes: the clock moves to a later instant of the timeline
Tick(instants) ==
    /\ \E t \in instants : t > clock /\ clock' = t
    /\ UNCHANGED <<hourCycle, env, users, trials, reminders, sweep, creator, canceller,
                   hist, planLog, cancelOk>>

----------------------------------------------------------------------------
(* The storage calls of the dispatch sweep and of the cancel request *)

\* mutant of DueWhere: the query does not join on the trial's status
DueWhereAnyTrial(reminder, trial, now) ==
    reminder.status = "PENDING" /\ reminder.remindAt <= now

\* mutant of DueWhere: the query takes remindAt < now
DueWhereStrictlyPast(reminder, trial, now) ==
    /\ reminder.status = "PENDING"
    /\ reminder.remindAt < now
    /\ trial.status = "ACTIVE"

\* mutant of DueWhere: the query does not compare remindAt with now
DueWhereAnyTime(reminder, trial, now) ==
    reminder.status = "PENDING" /\ trial.status = "ACTIVE"

\* the WHERE clause of getDueReminders, on a reminder row and its trial row
DueWhere(reminder, trial, now) ==
    /\ reminder.status = "PENDING"
    /\ reminder.remindAt <= now
    /\ trial.status = "ACTIVE"

\* getDueReminders: the ids of the rows the query selects
getDueReminders(now) ==
    {r \in DOMAIN reminders : DueWhere(reminders[r], trials[reminders[r].trialId], now)}

\* the row of the result of getDueReminders for reminder r:
\* { ...r.reminder, trial: r.trial, user: r.user }
DueRow(r) ==
    [id |-> r, trialId |-> reminders[r].trialId, type |-> reminders[r].type,
     trial |-> trials[reminders[r].trialId], user |-> users[reminders[r].userId]]

\* the query has no ORDER BY: the rows come in any order
Orderings(S) ==
    {f \in [1..Cardinality(S) -> S] : \A i, j \in DOMAIN f : i # j => f[i] # f[j]}

\* mutant of ClaimWhere: the claim does not test the status
ClaimWhereAnyStatus(reminder) == TRUE

\* the WHERE clause of claimAndSendReminder, beside the id
ClaimWhere(reminder) == reminder.status = "PENDING"

\* claimAndSendReminder: the table after the update
claimAndSendReminder(r, now) ==
    IF ClaimWhere(reminders[r])
    THEN [reminders EXCEPT ![r].status = "SENT", ![r].sentAt = Some(now)]
    ELSE reminders

\* `providerMessageId || null`: undefined and "" become null
OrNull(opt) == IF opt = Null \/ opt = Some("") THEN Null ELSE opt

\* mutant of markReminderSent: sentAt keeps the stamp of the claim
markReminderSentKeepsStamp(r, providerMessageId, now) ==
    [reminders EXCEPT ![r].status = "SENT",
                      ![r].providerMessageId = OrNull(providerMessageId),
                      ![r].lastError = Null]

\* markReminderSent: the table after the update
markReminderSent(r, providerMessageId, now) ==
    [reminders EXCEPT ![r].status = "SENT", ![r].sentAt = Some(now),
                      ![r].providerMessageId = OrNull(providerMessageId),
                      ![r].lastError = Null]

\* mutant of markReminderFailed: the reason is not stored
markReminderFailedNoReason(r, error) ==
    [reminders EXCEPT ![r].status = "FAILED"]

\* markReminderFailed: the table after the update
markReminderFailed(r, error) ==
    [reminders EXCEPT ![r].status = "FAILED", ![r].lastError = Some(error)]

\* mutant of SkipWhere: every reminder of the trial is skipped
SkipWhereAnyStatus(reminder, trialId) == reminder.trialId = trialId

\* the WHERE clause of skipRemindersByTrial
SkipWhere(reminder, trialId) ==
    reminder.trialId = trialId /\ reminder.status = "PENDING"

\* skipRemindersByTrial: the table after the update
skipRemindersByTrial(trialId) ==
    [r \in DOMAIN reminders |->
        IF SkipWhere(reminders[r], trialId)
        THEN [reminders[r] EXCEPT !.status = "SKIPPED"]
        ELSE reminders[r]]

\* cancelTrial: the table after the update (the update matches id and
\* userId only, and always stamps canceledAt)
cancelTrial(trialId, userId, now) ==
    [t \in DOMAIN trials |->
        IF t = trialId /\ trials[t].userId = userId
        THEN [trials[t] EXCEPT !.status = "CANCELED", !.canceledAt = Some(now)]
        ELSE trials[t]]

----------------------------------------------------------------------------
(* sendReminderEmail *)

Sent(messageId) == [success |-> TRUE, messageId |-> messageId, error |-> Null]
NotSent(error) == [success |-> FALSE, messageId |-> Null, error |-> Some(error)]

\* What sendReminderEmail returns: success with the provider's message id
\* ("console-only" without an API key), success without an id, or failure
\* with the provider's or the exception's message.  The message of a failure
\* is `a || b` with b a non-empty rendering of the error.
SenderResults ==
    {Sent(Some("re_1")), Sent(Null), NotSent("rate limited")}

\* buildReminderEmail of server/email.ts: the sentence of the email that
\* follows "Your free trial ends on ..."
buildReminderEmail(reminderType) ==
    IF reminderType = "ONE_HOUR" THEN "That's in about 1 hour!"
    ELSE IF reminderType = "THREE_HOURS" THEN "That's in about 3 hours!"
    ELSE IF reminderType = "SIX_HOURS" THEN "That's in about 6 hours!"
    ELSE IF reminderType = "TWENTY_FOUR_HOURS" \/ reminderType = "ONE_DAY"
         THEN "That's tomorrow!"
    ELSE "That's in 3 days."

\* buildReminderEmail of the other email module of the repository: the
\* subject and the heading say "renews in N day(s)" with
\* N = daysMap[reminderType] || 1
daysMap == [THREE_DAYS |-> 3, TWO_DAYS |-> 2, ONE_DAY |-> 1, TWENTY_FOUR_HOURS |-> 1]

daysRemaining(reminderType) ==
    IF reminderType \in DOMAIN daysMap /\ daysMap[reminderType] # 0
    THEN daysMap[reminderType]
    ELSE 1

buildReminderEmailInDays(reminderType) ==
    LET n == daysRemaining(reminderType)
    IN IF n # 1
       THEN IF n = 2 THEN "renews in 2 days" ELSE "renews in 3 days"
       ELSE "renews in 1 day"

\* the two email modules sendReminderEmail is built from
MailBuilds == {"email.ts", "part_003"}

TimeLeftText(build, reminderType) ==
    IF build = "email.ts"
    THEN buildReminderEmail(reminderType)
    ELSE buildReminderEmailInDays(reminderType)

\* `result.error || "Unknown error"`
ErrorOrUnknown(error) ==
    IF error = Null \/ error = Some("") THEN "Unknown error" ELSE error[1]

----------------------------------------------------------------------------
(* processRemindersNow, run by POST /api/cron/reminders and by             *)
(* POST /api/debug/run-reminders-now                                       *)

Sweeps == {"cron", "debug"}

NoResult == [success |-> FALSE, messageId |-> Null, error |-> Null]

SweepIdle ==
    [pc |-> "idle", now |-> 0, due |-> << >>, i |-> 0,
     emailsAttempted |-> 0, emailsSent |-> 0, failedCount |-> 0,
     failures |-> << >>, result |-> NoResult,
     \* history of the invocation: the trials that were CANCELED when the due
     \* list was fetched, the reminders it claimed, and the call that threw
     \* with the reminder it threw at
     fetchCanceled |-> {}, claimed |-> {}, thrown |-> "none", at |-> 0,
     \* the X-CRON-KEY or X-DEBUG-KEY header of the request that runs it
     header |-> Null]

\* an invocation that ended with an exception: its local state is gone, what
\* is left is the call that threw, the reminder it threw at and the reminders
\* the invocation had claimed
SweepFailed(s, thrown) ==
    [SweepIdle EXCEPT !.pc = "failed", !.thrown = thrown,
                      !.at = sweep[s].due[sweep[s].i].id,
                      !.claimed = sweep[s].claimed]

\* the reminder the loop is at
Current(s) == sweep[s].due[sweep[s].i]

\* The values a key header of a request can have: absent, the key the
\* deployment uses, another value
Headers == {Null, Some("k"), Some("x")}
\* process.env with both keys set, and every configuration of the two keys
EnvConfigured == [CRON_KEY |-> Some("k"), DEBUG_KEY |-> Some("k")]
Envs == [CRON_KEY : {Null, Some("k")}, DEBUG_KEY : {Null, Some("k")}]

\* The test at the head of the route of trigger s, on the key header of the
\* request: the status the route answers at once, or "ok".
\*   cron:  if (cronKey !== process.env.CRON_KEY) 403
\*   debug: if (!debugKey) 500; if (req.headers["x-debug-key"] !== debugKey) 403
Gate(s, header) ==
    IF s = "cron"
    THEN (IF header # env.CRON_KEY THEN "403" ELSE "ok")
    ELSE IF env.DEBUG_KEY = Null \/ env.DEBUG_KEY = Some("") THEN "500"
    ELSE IF header # env.DEBUG_KEY THEN "403"
    ELSE "ok"

\* a request for trigger s arrives: the route answers 403 or 500 at its head,
\* or processRemindersNow starts with `now = new Date()` and
\* getDueReminders(now)
SweepStart(s, headers) ==
    /\ sweep[s].pc \in {"idle", "failed", "403", "500"}
    /\ \E header \in headers :
        IF Gate(s, header) # "ok"
        THEN sweep' = [sweep EXCEPT ![s] =
                [SweepIdle EXCEPT !.pc = Gate(s, header), !.header = header]]
        ELSE \E order \in Orderings(getDueReminders(clock)) :
            sweep' = [sweep EXCEPT ![s] =
                [SweepIdle EXCEPT
                    !.pc = "loop", !.now = clock, !.i = 1,
                    !.due = [k \in DOMAIN order |-> DueRow(order[k])],
                    !.fetchCanceled =
                        {t \in DOMAIN trials : trials[t].status = "CANCELED"},
                    !.header = header]]
    /\ UNCHANGED <<clock, hourCycle, env, users, trials, reminders, creator, canceller,
                   hist, planLog, cancelOk>>

\* mutant of SweepClaim: a claim that returns false counts as an attempt
SweepClaimCountsLost(s) ==
    /\ sweep[s].pc = "loop"
    /\ sweep[s].i <= Len(sweep[s].due)
    /\ LET r == Current(s).id
           claimed == ClaimWhere(reminders[r])
       IN /\ reminders' = claimAndSendReminder(r, clock)
          /\ IF claimed
             THEN /\ sweep' = [sweep EXCEPT ![s].pc = "send",
                                   ![s].emailsAttempted = @ + 1,
                                   ![s].claimed = @ \cup {r}]
                  /\ hist' = [hist EXCEPT ![r].claimWon = Bump(@),
                                 ![r].claimTrialStatus =
                                     trials[reminders[r].trialId].status]
             ELSE /\ sweep' = [sweep EXCEPT ![s].i = @ + 1,
                                   ![s].emailsAttempted = @ + 1]
                  /\ UNCHANGED hist
    /\ UNCHANGED <<clock, hourCycle, env, users, trials, creator, canceller, planLog,
                   cancelOk>>

\* claimAndSendReminder returns: `if (!claimed) continue; emailsAttempted++`
SweepClaim(s) ==
    /\ sweep[s].pc = "loop"
    /\ sweep[s].i <= Len(sweep[s].due)
    /\ LET r == Current(s).id
           claimed == ClaimWhere(reminders[r])
       IN /\ reminders' = claimAndSendReminder(r, clock)
          /\ IF claimed
             THEN /\ sweep' = [sweep EXCEPT ![s].pc = "send",
                                   ![s].emailsAttempted = @ + 1,
                                   ![s].claimed = @ \cup {r}]
                  /\ hist' = [hist EXCEPT ![r].claimWon = Bump(@),
                                 ![r].claimTrialStatus =
                                     trials[reminders[r].trialId].status]
             ELSE /\ sweep' = [sweep EXCEPT ![s].i = @ + 1]
                  /\ UNCHANGED hist
    /\ UNCHANGED <<clock, hourCycle, env, users, trials, creator, canceller, planLog,
                   cancelOk>>

\* mutant of SweepClaimThrows: the update is applied before the call throws
SweepClaimThrowsAfterUpdate(s) ==
    /\ sweep[s].pc = "loop"
    /\ sweep[s].i <= Len(sweep[s].due)
    /\ sweep' = [sweep EXCEPT ![s] = SweepFailed(s, "storage")]
    /\ reminders' = claimAndSendReminder(Current(s).id, clock)
    /\ UNCHANGED <<clock, hourCycle, env, users, trials, creator, canceller,
                   hist, planLog, cancelOk>>

\* claimAndSendReminder throws (a storage error): the update did not happen,
\* the exception leaves processRemindersNow and the route answers 500
SweepClaimThrows(s) ==
    /\ sweep[s].pc = "loop"
    /\ sweep[s].i <= Len(sweep[s].due)
    /\ sweep' = [sweep EXCEPT ![s] = SweepFailed(s, "storage")]
    /\ UNCHANGED <<clock, hourCycle, env, users, trials, reminders, creator, canceller,
                   hist, planLog, cancelOk>>

\* sendReminderEmail returns a result
SweepSend(s, builds) ==
    /\ sweep[s].pc = "send"
    /\ \E result \in SenderResults : \E build \in builds :
        /\ sweep' = [sweep EXCEPT ![s].pc = "mark", ![s].result = result]
        /\ hist' = [hist EXCEPT ![Current(s).id].invoked = Bump(@),
                       ![Current(s).id].said = TimeLeftText(build, Current(s).type)]
    /\ UNCHANGED <<clock, hourCycle, env, users, trials, reminders, creator, canceller,
                   planLog, cancelOk>>

\* sendReminderEmail throws: buildReminderEmail runs before the try block of
\* sendReminderEmail, and processRemindersNow has no try block of its own
SweepSendThrows(s) ==
    /\ sweep[s].pc = "send"
    /\ sweep' = [sweep EXCEPT ![s] = SweepFailed(s, "sender")]
    /\ hist' = [hist EXCEPT ![Current(s).id].invoked = Bump(@)]
    /\ UNCHANGED <<clock, hourCycle, env, users, trials, reminders, creator, canceller,
                   planLog, cancelOk>>

\* the record pushed to failures
FailureRecord(row, reason) ==
    [reminderId |-> row.id, trialId |-> row.trialId, reason |-> reason]

\* mutant of SweepMark: a failed delivery is marked but not counted
SweepMarkUncounted(s) ==
    /\ sweep[s].pc = "mark"
    /\ LET row == Current(s)
           result == sweep[s].result
       IN IF result.success
          THEN /\ reminders' = markReminderSent(row.id, result.messageId, clock)
               /\ sweep' = [sweep EXCEPT ![s].pc = "loop", ![s].i = @ + 1,
                                ![s].result = NoResult,
                                ![s].emailsSent = @ + 1]
          ELSE /\ reminders' = markReminderFailed(row.id, ErrorOrUnknown(result.error))
               /\ sweep' = [sweep EXCEPT ![s].pc = "loop", ![s].i = @ + 1,
                                ![s].result = NoResult,
                                ![s].failures = Append(@,
                                    FailureRecord(row, ErrorOrUnknown(result.error)))]
    /\ UNCHANGED <<clock, hourCycle, env, users, trials, creator, canceller, hist,
                   planLog, cancelOk>>

\* markReminderSent and emailsSent++, or markReminderFailed, failedCount++
\* and failures.push; then the next turn of the loop
SweepMark(s) ==
    /\ sweep[s].pc = "mark"
    /\ LET row == Current(s)
           result == sweep[s].result
       IN IF result.success
          THEN /\ reminders' = markReminderSent(row.id, result.messageId, clock)
               /\ sweep' = [sweep EXCEPT ![s].pc = "loop", ![s].i = @ + 1,
                                ![s].result = NoResult,
                                ![s].emailsSent = @ + 1]
          ELSE /\ reminders' = markReminderFailed(row.id, ErrorOrUnknown(result.error))
               /\ sweep' = [sweep EXCEPT ![s].pc = "loop", ![s].i = @ + 1,
                                ![s].result = NoResult,
                                ![s].failedCount = @ + 1,
                                ![s].failures = Append(@,
                                    FailureRecord(row, ErrorOrUnknown(result.error)))]
    /\ UNCHANGED <<clock, hourCycle, env, users, trials, creator, canceller, hist,
                   planLog, cancelOk>>

\* the loop is over: the summary is returned, the route answers with it and
\* the invocation is gone
SweepReturn(s) ==
    /\ sweep[s].pc = "loop"
    /\ sweep[s].i > Len(sweep[s].due)
    /\ sweep' = [sweep EXCEPT ![s] = SweepIdle]
    /\ UNCHANGED <<clock, hourCycle, env, users, trials, reminders, creator, canceller,
                   hist, planLog, cancelOk>>

\* the summary processRemindersNow returns
Summary(s) ==
    [remindersProcessedCount |-> Len(sweep[s].due),
     emailsAttemptedCount |-> sweep[s].emailsAttempted,
     emailsSentCount |-> sweep[s].emailsSent,
     failedCount |-> sweep[s].failedCount,
     failures |-> sweep[s].failures]

----------------------------------------------------------------------------
(* POST /api/trials/:id/cancel *)

CancellerIdle(response) == [pc |-> "idle", trialId |-> 0, response |-> response]

\* cancelTrial; 404 when no row matched
CancelBegin ==
    /\ canceller.pc = "idle"
    /\ \E t \in TrialIds, u \in UserIds :
        IF t \in DOMAIN trials /\ trials[t].userId = u
        THEN /\ trials' = cancelTrial(t, u, clock)
             /\ canceller' = [pc |-> "skip", trialId |-> t, response |-> "none"]
        ELSE /\ canceller' = CancellerIdle("404")
             /\ UNCHANGED trials
    /\ UNCHANGED <<clock, hourCycle, env, users, reminders, sweep, creator, hist,
                   planLog, cancelOk>>

\* skipRemindersByTrial and res.json(trial)
CancelSkip ==
    /\ canceller.pc = "skip"
    /\ reminders' = skipRemindersByTrial(canceller.trialId)
    /\ canceller' = CancellerIdle("200")
    /\ cancelOk' = cancelOk \cup {canceller.trialId}
    /\ UNCHANGED <<clock, hourCycle, env, users, trials, sweep, creator, hist, planLog>>

----------------------------------------------------------------------------
(* Specifications *)

NewUser(timezone) == [timezone |-> timezone, plan |-> "FREE"]

\* the slots for POST /api/trials requests in flight
OneRequest == {"a"}
TwoRequests == {"a", "b"}

InitWith(instants, zones, cycles, envs, requests) ==
    /\ clock \in instants
    /\ hourCycle \in cycles
    /\ env \in envs
    /\ users \in [UserIds -> {NewUser(z) : z \in zones}]
    /\ trials = << >>
    /\ reminders = << >>
    /\ sweep = [s \in Sweeps |-> SweepIdle]
    /\ creator = [c \in requests |-> CreatorIdle("none")]
    /\ canceller = CancellerIdle("none")
    /\ hist = [r \in ReminderIds |-> NoHist]
    /\ planLog = << >>
    /\ cancelOk = {}

\* The dispatch specification: a user in UTC adds trials that end on
\* 2025-06-04; the clock starts on 2025-06-01T00:00:00Z and passes the
\* instants at which the planned reminders fall due.
DispatchEndDates == {3}
DispatchStartDates == {0, 5}
DispatchInstants ==
    {0, EndOfDayUtc(3) - 72 * SecondsPerHour, EndOfDayUtc(3) - 24 * SecondsPerHour}

Init == InitWith({0}, {"UTC"}, {"h23"}, {EnvConfigured}, OneRequest)

Next ==
    \/ \E c \in OneRequest :
        \/ CreateBegin(c, MaxTrials)
        \/ CreateTrial(c, DispatchEndDates, DispatchStartDates)
        \/ CreateReminder(c)
        \/ CreateRespond(c)
    \/ CancelBegin
    \/ CancelSkip
    \/ \E s \in Sweeps :
        \/ SweepStart(s, {Some("k")})
        \/ SweepClaim(s)
        \/ SweepClaimThrows(s)
        \/ SweepSend(s, {"email.ts"})
        \/ SweepSendThrows(s)
        \/ SweepMark(s)
        \/ SweepReturn(s)
    \/ Tick(DispatchInstants)

Spec == Init /\ [][Next]_vars

\* The planning specification: a user of any zone adds trials that end on
\* 2025-06-10, 2025-06-02 or 2025-05-01, at 2025-06-01T00:00:00Z, at
\* 2025-06-01T23:58:00Z, and at the instants that lie 72, 24, 6 and 1 hours
\* before 2025-06-10T23:59:59Z or precede one of these by the 2-minute
\* margin or by a second more.
PlanEndDates == {-31, 1, 9}
PlanStartDates == {-40}
PlanInstants ==
    {EndOfDayUtc(9) - h * SecondsPerHour - d :
        h \in {72, 24, 6, 1}, d \in {minFutureMs + 1, minFutureMs, 0}}
    \cup {0, 24 * SecondsPerHour - minFutureMs, EndOfDayUtc(9)}

PlanInit == InitWith(PlanInstants, Zones, HourCycles, {EnvConfigured}, OneRequest)

PlanNext ==
    \/ \E c \in OneRequest :
        \/ CreateBegin(c, MaxPlanned)
        \/ CreateTrial(c, PlanEndDates, PlanStartDates)
        \/ CreateReminder(c)
        \/ CreateRespond(c)
    \/ Tick(PlanInstants)

SpecPlan == PlanInit /\ [][PlanNext]_vars

\* The daylight-saving specification: a user in America/New_York adds trials
\* that end on 2025-11-03, at noon UTC of 2025-10-31 and 2025-11-01 (before
\* the zone leaves daylight saving time) and of 2025-11-02 (after it).
DstEndDates == {155}
DstStartDates == {150}
DstInstants == {d * SecondsPerDay + 12 * SecondsPerHour : d \in {152, 153, 154}}

DstInit == InitWith(DstInstants, DstZones, HourCycles, {EnvConfigured}, OneRequest)

DstNext ==
    \/ \E c \in OneRequest :
        \/ CreateBegin(c, MaxPlanned)
        \/ CreateTrial(c, DstEndDates, DstStartDates)
        \/ CreateReminder(c)
        \/ CreateRespond(c)
    \/ Tick(DstInstants)

SpecDst == DstInit /\ [][DstNext]_vars

\* The limit specification: two POST /api/trials requests of the same FREE
\* user run concurrently, interleaved at their storage calls.
LimitInit == InitWith({0}, {"UTC"}, {"h23"}, {EnvConfigured}, TwoRequests)

LimitNext ==
    \E c \in TwoRequests :
        \/ CreateBegin(c, MaxCreated)
        \/ CreateTrial(c, DispatchEndDates, DispatchStartDates)
        \/ CreateReminder(c)
        \/ CreateRespond(c)

SpecLimit == LimitInit /\ [][LimitNext]_vars

\* The key specification: the deployment has any configuration of CRON_KEY
\* and DEBUG_KEY, and the requests for a sweep carry any key header.
AuthInit == InitWith({0}, {"UTC"}, {"h23"}, Envs, OneRequest)

AuthNext ==
    \/ \E c \in OneRequest :
        \/ CreateBegin(c, MaxTrials)
        \/ CreateTrial(c, DispatchEndDates, DispatchStartDates)
        \/ CreateReminder(c)
        \/ CreateRespond(c)
    \/ \E s \in Sweeps :
        \/ SweepStart(s, Headers)
        \/ SweepClaim(s)
        \/ SweepClaimThrows(s)
        \/ SweepSend(s, {"email.ts"})
        \/ SweepSendThrows(s)
        \/ SweepMark(s)
        \/ SweepReturn(s)
    \/ Tick(DispatchInstants)

SpecAuth == AuthInit /\ [][AuthNext]_vars

\* The specification of the fixed variant: a user of any zone adds trials
\* that end on 2025-06-10, at 2025-06-01T00:00:00Z and on the days of the two
\* reminders.
FixedEndDates == {9}
FixedStartDates == {0, 12}
FixedInstants ==
    {0, 6 * SecondsPerDay + 7 * SecondsPerHour, 8 * SecondsPerDay + 10 * SecondsPerHour}

FixedInit == InitWith(FixedInstants, Zones, HourCycles, {EnvConfigured}, OneRequest)

FixedNext ==
    \/ \E c \in OneRequest :
        \/ CreateTrialFixed(c, MaxPlanned, FixedEndDates, FixedStartDates)
        \/ CreateReminder(c)
        \/ CreateRespond(c)
    \/ Tick(FixedInstants)

SpecFixed == FixedInit /\ [][FixedNext]_vars

----------------------------------------------------------------------------
(* Reminder planning: claims C9 and C10 (specification SpecPlan) *)

\* the end instant of the computeReminders call logged for trial t
LoggedEnd(t) ==
    EndDateTimeUtc(planLog[t].endDate, planLog[t].now, planLog[t].timezone, hourCycle)

\* C9: for a fixed end instant and two instants now1 < now2 that both lie
\* before it, the plan computed at now2 has no more entries than the plan
\* computed at now1.
C9_PlanCountNonIncreasing ==
    \A t1, t2 \in DOMAIN planLog :
        (/\ LoggedEnd(t1) = LoggedEnd(t2)
         /\ planLog[t1].now < planLog[t2].now
         /\ planLog[t2].now < LoggedEnd(t2))
        => Len(planLog[t2].plan) <= Len(planLog[t1].plan)

\* C10: every entry of a plan computeReminders returned fires strictly later
\* than now + 2 minutes, and every candidate of the selected offset table that
\* fires strictly later than now + 2 minutes is in the plan, with its type.
C10_PlanRespectsMargin ==
    \A t \in DOMAIN planLog :
        LET now == planLog[t].now
            plan == planLog[t].plan
            end == LoggedEnd(t)
            table == SelectOffsets(end - now)
        IN /\ \A k \in DOMAIN plan : plan[k].remindAt > now + 2 * 60
           /\ \A j \in DOMAIN table :
                end - table[j].hoursBeforeEnd * 3600 > now + 2 * 60
                => \E k \in DOMAIN plan :
                      /\ plan[k].remindAt = end - table[j].hoursBeforeEnd * 3600
                      /\ plan[k].type = table[j].type

\* C10 witness: a plan was computed in which one candidate of the table fired
\* exactly at now + 2 minutes and was dropped, and the other was kept
C10_Witness ==
    \E t \in DOMAIN planLog :
        LET now == planLog[t].now
            end == LoggedEnd(t)
            table == SelectOffsets(end - now)
        IN /\ Len(planLog[t].plan) = 1
           /\ \E j \in DOMAIN table :
                end - table[j].hoursBeforeEnd * 3600 = now + 2 * 60

----------------------------------------------------------------------------
(* The end instant: claims C11 (specification SpecPlan) and C12            *)
(* (specification SpecDst)                                                 *)

\* C11: for a zone with a constant offset k and any instant now,
\* getTimezoneOffsetMs returns k and the end instant computeReminders uses is
\* 23:59:59 of endDate on the local wall clock: endDate 23:59:59 UTC minus k.
C11_EndIsLocalEndOfDay ==
    \A t \in DOMAIN planLog :
        planLog[t].timezone \in DOMAIN ZoneOffsetMinutes
        => LET k == ZoneOffsetMinutes[planLog[t].timezone] * 60
           IN /\ getTimezoneOffsetMs(planLog[t].timezone, planLog[t].now,
                                     hourCycle) = k
              /\ LoggedEnd(t) = planLog[t].endDate * 86400 + 86399 - k

\* C12: for a zone whose offset changes between now and the end date,
\* computeReminders resolves the end instant with the offset in effect at
\* the end date.
C12_OffsetOfEndDate ==
    \A t \in DOMAIN planLog :
        LET endOfDay == planLog[t].endDate * 86400 + 86399
        IN LoggedEnd(t) =
            endOfDay - OffsetMinutesAt(planLog[t].timezone, endOfDay) * 60

----------------------------------------------------------------------------
(* The plan: claims C13 to C17 (specification SpecPlan) *)

\* C13: the entries of a plan are candidates of the one table that belongs
\* to timeLeft = end instant - now (72h/24h from 72 hours on, 24h/3h from 24
\* hours on, 6h/1h below), and for endDate 2025-06-10, now
\* 2025-06-01T00:00:00Z and zone UTC the plan is THREE_DAYS at 72 hours and
\* ONE_DAY at 24 hours before 2025-06-10T23:59:59Z.
C13_TierTables ==
    \A t \in DOMAIN planLog :
        LET now == planLog[t].now
            plan == planLog[t].plan
            end == LoggedEnd(t)
            timeLeft == end - now
            table ==
                IF timeLeft >= 72 * 3600
                THEN {<<72, "THREE_DAYS">>, <<24, "ONE_DAY">>}
                ELSE IF timeLeft >= 24 * 3600
                THEN {<<24, "TWENTY_FOUR_HOURS">>, <<3, "THREE_HOURS">>}
                ELSE IF timeLeft > 0
                THEN {<<6, "SIX_HOURS">>, <<1, "ONE_HOUR">>}
                ELSE {}
        IN /\ \A k \in DOMAIN plan :
                \E c \in table :
                    /\ plan[k].remindAt = end - c[1] * 3600
                    /\ plan[k].type = c[2]
           /\ (planLog[t].endDate = 9 /\ now = 0 /\ planLog[t].timezone = "UTC")
                => plan = << [remindAt |-> 9 * 86400 + 86399 - 72 * 3600,
                              type |-> "THREE_DAYS"],
                             [remindAt |-> 9 * 86400 + 86399 - 24 * 3600,
                              type |-> "ONE_DAY"] >>

C15_EmptyPlanOncePast ==
    \A t \in DOMAIN planLog :
        (/\ planLog[t].timezone \in DOMAIN ZoneOffsetMinutes
         /\ planLog[t].endDate * 86400 + 86399
                - ZoneOffsetMinutes[planLog[t].timezone] * 60 <= planLog[t].now)
        => planLog[t].plan = << >>

----------------------------------------------------------------------------
(* The limit of the FREE plan: claim C18 (specification SpecLimit) *)

\* C18: a user on the FREE plan never has more than 3 trials with status
\* ACTIVE.
C18_AtMostThreeActive ==
    \A u \in UserIds :
        users[u].plan = "FREE"
        => Cardinality({t \in DOMAIN trials :
                trials[t].userId = u /\ trials[t].status = "ACTIVE"}) <= 3

----------------------------------------------------------------------------
(* The key of the cron route: claim C19 (specification SpecAuth) *)

\* C19: a sweep of POST /api/cron/reminders runs only for a request that
\* carries an X-CRON-KEY header, with the value of the configured CRON_KEY.
C19_NoSweepWithoutKey ==
    sweep["cron"].pc \in {"loop", "send", "mark"}
    => /\ sweep["cron"].header # << >>
       /\ sweep["cron"].header = env.CRON_KEY

----------------------------------------------------------------------------
(* The fixed 3-day/1-day variant: claim C20 (specification SpecFixed) *)

\* C20: for a zone with a constant offset and daysBefore 1 or 3,
\* computeReminderTimeInUTC is the instant at which the wall clock of the
\* zone reads 10:00 on the date endDate - daysBefore.
C20_TenOClockLocal ==
    \A t \in DOMAIN planLog :
        planLog[t].timezone \in DOMAIN ZoneOffsetMinutes
        => \A daysBefore \in {1, 3} :
            computeReminderTimeInUTC(planLog[t].endDate, daysBefore,
                                     planLog[t].timezone, hourCycle)
            = (planLog[t].endDate - daysBefore) * 86400 + 10 * 3600
                - ZoneOffsetMinutes[planLog[t].timezone] * 60

----------------------------------------------------------------------------
(* The dispatch sweep: claims C1 to C8 (specification Spec) *)

StatusOf(r) == reminders[r].status
TrialOf(r) == reminders[r].trialId

\* the invocation of sweep s is running and has had its turn at claiming r
Attempted(s, r) ==
    /\ sweep[s].pc \in {"loop", "send", "mark"}
    /\ \E k \in DOMAIN sweep[s].due :
        /\ sweep[s].due[k].id = r
        /\ \/ k < sweep[s].i
           \/ k = sweep[s].i /\ sweep[s].pc \in {"send", "mark"}

\* C1: sendReminderEmail is invoked at most once for a reminder, however the
\* sweeps interleave: at most one claim of it succeeds, only an invocation
\* that claimed it sends, and when two running invocations both fetched it
\* and both had their turn at it, exactly one of them claimed it (none when a
\* cancel skipped it in between).
C1_AtMostOneSend ==
    \A r \in DOMAIN reminders :
        /\ hist[r].invoked <= 1
        /\ hist[r].claimWon <= 1
        /\ hist[r].invoked <= hist[r].claimWon
        /\ \A s1, s2 \in Sweeps :
            (s1 # s2 /\ Attempted(s1, r) /\ Attempted(s2, r))
            => /\ ~(r \in sweep[s1].claimed /\ r \in sweep[s2].claimed)
               /\ StatusOf(r) # "SKIPPED"
                    => (r \in sweep[s1].claimed \/ r \in sweep[s2].claimed)

\* C1 witness: two running invocations fetched the same reminder and both had
\* their turn; one claimed it and called the sender once, the other did not
C1_Witness ==
    \E r \in DOMAIN reminders : \E s1, s2 \in Sweeps :
        /\ s1 # s2
        /\ Attempted(s1, r) /\ Attempted(s2, r)
        /\ r \in sweep[s1].claimed
        /\ r \notin sweep[s2].claimed
        /\ hist[r].invoked = 1

C3_NoClaimOnceCanceled ==
    \A r \in DOMAIN reminders :
        ~(hist[r].claimTrialStatus = "CANCELED" /\ hist[r].invoked > 0)

\* C4: an invocation whose due list was fetched when a trial was CANCELED
\* has no reminder of that trial in its due list and claims none.
C4_NoClaimAfterCancelFetch ==
    \A s \in Sweeps :
        /\ \A k \in DOMAIN sweep[s].due :
              sweep[s].due[k].trialId \notin sweep[s].fetchCanceled
        /\ \A r \in sweep[s].claimed : TrialOf(r) \notin sweep[s].fetchCanceled

\* C4 witness: an invocation fetched its due list while a trial was CANCELED
\* and its reminder, due then, was not yet SKIPPED; the loop is over and the
\* reminder is still PENDING
C4_Witness ==
    \E s \in Sweeps : \E r \in DOMAIN reminders :
        /\ sweep[s].pc = "loop"
        /\ sweep[s].i > Len(sweep[s].due)
        /\ TrialOf(r) \in sweep[s].fetchCanceled
        /\ StatusOf(r) = "PENDING"
        /\ reminders[r].remindAt <= sweep[s].now

\* C5: once a cancel request for a trial answered success, no reminder of
\* the trial is PENDING.
C5_NoPendingAfterCancel ==
    \A t \in cancelOk :
        \A r \in DOMAIN reminders : TrialOf(r) = t => StatusOf(r) # "PENDING"

\* C6: an exception of the sender call is contained to its reminder: it
\* never ends the invocation.
C6_SenderExceptionContained ==
    \A s \in Sweeps : ~(sweep[s].pc = "failed" /\ sweep[s].thrown = "sender")

\* C7: when the sender answered success = false with error text e, the step
\* that handles the answer stores FAILED and lastError = e, adds the record
\* {reminderId, trialId, reason = e} to failures and counts one failure, and
\* goes on to the next candidate; a FAILED reminder is never changed, claimed
\* or sent again.
C7_FailureRecorded ==
    [][/\ \A s \in Sweeps :
            (sweep[s].pc = "mark" /\ ~sweep[s].result.success
                /\ sweep'[s] # sweep[s])
            => LET r == sweep[s].due[sweep[s].i].id
                   e == sweep[s].result.error[1]
               IN /\ reminders'[r].status = "FAILED"
                  /\ reminders'[r].lastError = <<e>>
                  /\ sweep'[s].failures = Append(sweep[s].failures,
                        [reminderId |-> r, trialId |-> TrialOf(r), reason |-> e])
                  /\ sweep'[s].failedCount = sweep[s].failedCount + 1
                  /\ sweep'[s].pc = "loop"
                  /\ sweep'[s].i = sweep[s].i + 1
       /\ \A r \in DOMAIN reminders :
            StatusOf(r) = "FAILED"
            => reminders'[r] = reminders[r] /\ hist'[r] = hist[r]]_vars

\* C7 witness: an invocation recorded the failure "rate limited" for a
\* reminder, which is FAILED with that lastError, and went on with its loop
C7_Witness ==
    \E s \in Sweeps :
        /\ sweep[s].pc = "loop"
        /\ Len(sweep[s].failures) = 1
        /\ sweep[s].failures[1].reason = "rate limited"
        /\ StatusOf(sweep[s].failures[1].reminderId) = "FAILED"
        /\ reminders[sweep[s].failures[1].reminderId].lastError = <<"rate limited">>
        /\ sweep[s].i <= Len(sweep[s].due)

\* C8: when claimAndSendReminder throws, the invocation fails and no row is
\* changed (the reminder keeps its status); the reminders the invocation had
\* claimed before keep their outcome, SENT or FAILED; and the reminder it
\* threw at, while PENDING with an ACTIVE trial, is in the due list of a
\* sweep that starts now.
C8_ClaimErrorFailsInvocationOnly ==
    /\ [][\A s \in Sweeps :
            (sweep[s].pc = "loop" /\ sweep'[s].pc = "failed")
            => /\ sweep'[s].thrown = "storage"
               /\ reminders' = reminders
               /\ trials' = trials]_vars
    /\ [](\A s \in Sweeps :
            (sweep[s].pc = "failed" /\ sweep[s].thrown = "storage")
            => /\ \A r \in sweep[s].claimed :
                    \/ StatusOf(r) = "SENT" /\ reminders[r].lastError = Null
                    \/ StatusOf(r) = "FAILED" /\ reminders[r].lastError # Null
               /\ (StatusOf(sweep[s].at) = "PENDING"
                    /\ trials[TrialOf(sweep[s].at)].status = "ACTIVE")
                  => sweep[s].at \in getDueReminders(clock))

\* C8 witness: an invocation resolved one reminder, then failed on a storage
\* error at the next, which is still PENDING
C8_Witness ==
    \E s \in Sweeps :
        /\ sweep[s].pc = "failed"
        /\ sweep[s].thrown = "storage"
        /\ sweep[s].claimed # {}
        /\ StatusOf(sweep[s].at) = "PENDING"

\* The fair dispatch specification: the dispatch specification with the cron
\* sweep only and no call that throws.  The cron request with the configured
\* key keeps being made, and every storage and sender call an invocation or a
\* cancel request is waiting for returns; time need not advance and users
\* need not act.
LiveNext ==
    \/ \E c \in OneRequest :
        \/ CreateBegin(c, MaxTrials)
        \/ CreateTrial(c, DispatchEndDates, DispatchStartDates)
        \/ CreateReminder(c)
        \/ CreateRespond(c)
    \/ CancelBegin
    \/ CancelSkip
    \/ \E s \in {"cron"} :
        \/ SweepStart(s, {Some("k")})
        \/ SweepClaim(s)
        \/ SweepSend(s, {"email.ts"})
        \/ SweepMark(s)
        \/ SweepReturn(s)
    \/ Tick(DispatchInstants)

LiveFairness ==
    /\ WF_vars(SweepStart("cron", {Some("k")}))
    /\ WF_vars(SweepClaim("cron"))
    /\ WF_vars(SweepSend("cron", {"email.ts"}))
    /\ WF_vars(SweepMark("cron"))
    /\ WF_vars(SweepReturn("cron"))
    /\ WF_vars(CancelSkip)

SpecLive == Init /\ [][LiveNext]_vars /\ LiveFairness

\* The creation specification: a user in UTC adds trials that end on
\* 2025-06-02 or 2025-06-10, on 2025-06-01 or a day later, and the storage
\* may fail at the insert of the trial or of any planned reminder.
CreationEndDates == {1, 9}
CreationStartDates == {0, 5}
CreationInstants == {0, SecondsPerDay}

CreationInit == InitWith({0}, {"UTC"}, {"h23"}, {EnvConfigured}, OneRequest)

CreationNext ==
    \/ \E c \in OneRequest :
        \/ CreateBegin(c, MaxPlanned)
        \/ CreateTrial(c, CreationEndDates, CreationStartDates)
        \/ CreateTrialThrows(c, CreationEndDates, CreationStartDates)
        \/ CreateReminder(c)
        \/ CreateReminderThrows(c)
        \/ CreateRespond(c)
    \/ Tick(CreationInstants)

SpecCreation == CreationInit /\ [][CreationNext]_vars

\* The mail specification: a user in UTC adds a trial that ends on
\* 2025-06-01, 2025-06-03 or 2025-06-10 at 2025-06-01T00:00:00Z, so that the
\* plan is of the 6h/1h, the 24h/3h or the 72h/24h table; the clock passes to
\* the end of 2025-06-10, when every reminder is due, and the cron sweep
\* sends them with either email module.
MailEndDates == {0, 2, 9}
MailStartDates == {0}
MailInstants == {0, EndOfDayUtc(9)}

MailInit == InitWith({0}, {"UTC"}, {"h23"}, {EnvConfigured}, OneRequest)

MailNext ==
    \/ \E c \in OneRequest :
        \/ CreateBegin(c, MaxTrials)
        \/ CreateTrial(c, MailEndDates, MailStartDates)
        \/ CreateReminder(c)
        \/ CreateRespond(c)
    \/ \E s \in {"cron"} :
        \/ SweepStart(s, {Some("k")})
        \/ SweepClaim(s)
        \/ SweepSend(s, MailBuilds)
        \/ SweepMark(s)
        \/ SweepReturn(s)
    \/ Tick(MailInstants)

SpecMail == MailInit /\ [][MailNext]_vars

----------------------------------------------------------------------------
(* The dispatch sweep: claims C21 to C25 and C28 (specification Spec) *)

\* C21: when claimAndSendReminder returns false for the reminder the loop is
\* at (its status is no longer PENDING), the invocation only moves to the
\* next candidate: no sender call, no mark, no change of its counters or of
\* failures, no error, and no row changes.
C21_LostClaimIsSilent ==
    [][\A s \in Sweeps :
          (/\ sweep[s].pc = "loop"
           /\ sweep[s].i <= Len(sweep[s].due)
           /\ StatusOf(sweep[s].due[sweep[s].i].id) # "PENDING"
           /\ sweep'[s] # sweep[s]
           /\ sweep'[s].pc # "failed")
          => /\ sweep'[s] = [sweep[s] EXCEPT !.i = sweep[s].i + 1]
             /\ reminders' = reminders
             /\ hist' = hist]_vars

\* C21 witness: an invocation went past a reminder of its due list that a
\* cancel had skipped after the fetch, and has attempted nothing
C21_Witness ==
    \E s \in Sweeps : \E r \in DOMAIN reminders :
        /\ sweep[s].pc = "loop"
        /\ Attempted(s, r)
        /\ r \notin sweep[s].claimed
        /\ StatusOf(r) = "SKIPPED"
        /\ sweep[s].emailsAttempted = 0
        /\ sweep[s].failures = << >>

\* C22: every reminder whose stored status is SENT has had a successful
\* delivery: the sender was called for it, the call did not throw and it
\* did not answer with a failure.
C22_SentMeansDelivered ==
    \A r \in DOMAIN reminders :
        StatusOf(r) = "SENT"
        => /\ hist[r].invoked >= 1
           /\ \A s \in Sweeps :
                /\ ~(sweep[s].pc = "failed" /\ sweep[s].thrown = "sender"
                        /\ sweep[s].at = r)
                /\ ~(sweep[s].pc = "mark" /\ sweep[s].due[sweep[s].i].id = r
                        /\ ~sweep[s].result.success)

\* C23 as claimed: the step that handles a successful delivery stores SENT,
\* sentAt = the `now` of the sweep, the sender's message id (null when none)
\* and lastError null.
C23_SentAtIsSweepNow ==
    [][\A s \in Sweeps :
          (sweep[s].pc = "mark" /\ sweep[s].result.success /\ sweep'[s] # sweep[s])
          => LET r == sweep[s].due[sweep[s].i].id
             IN /\ reminders'[r].status = "SENT"
                /\ reminders'[r].sentAt = << sweep[s].now >>
                /\ reminders'[r].providerMessageId = sweep[s].result.messageId
                /\ reminders'[r].lastError = << >>]_vars

\* C23 as amended: the step that handles a successful delivery stores SENT,
\* sentAt = the instant of that step (not before the `now` of the sweep), the
\* sender's message id (null when none) and lastError null; a SENT row is
\* changed by no step but the mark of the invocation that claimed it.
C23_SuccessRecorded ==
    [][/\ \A s \in Sweeps :
            (sweep[s].pc = "mark" /\ sweep[s].result.success
                /\ sweep'[s] # sweep[s])
            => LET r == sweep[s].due[sweep[s].i].id
               IN /\ reminders'[r].status = "SENT"
                  /\ reminders'[r].sentAt = << clock >>
                  /\ clock >= sweep[s].now
                  /\ reminders'[r].providerMessageId = sweep[s].result.messageId
                  /\ reminders'[r].lastError = << >>
       /\ \A r \in DOMAIN reminders :
            (StatusOf(r) = "SENT" /\ reminders'[r] # reminders[r])
            => \E s \in Sweeps :
                /\ sweep[s].pc = "mark"
                /\ sweep[s].due[sweep[s].i].id = r
                /\ r \in sweep[s].claimed]_vars

\* C23 witness: a delivered reminder carries the sender's message id and a
\* sentAt later than the `now` of the sweep that has just marked it
C23_Witness ==
    \E s \in Sweeps : \E r \in sweep[s].claimed :
        /\ sweep[s].pc = "loop"
        /\ StatusOf(r) = "SENT"
        /\ reminders[r].providerMessageId = << "re_1" >>
        /\ reminders[r].lastError = << >>
        /\ reminders[r].sentAt # << >>
        /\ reminders[r].sentAt[1] > sweep[s].now

\* C24: a CANCELED trial row never changes again: it does not return to
\* ACTIVE and its canceledAt stamp is set once.
C24_CanceledRowFrozen ==
    [][\A t \in DOMAIN trials :
          trials[t].status = "CANCELED" => trials'[t] = trials[t]]_vars

\* C25: the summary an invocation returns has emailsAttemptedCount =
\* emailsSentCount + failedCount <= remindersProcessedCount, and failures
\* has failedCount records, one for each reminder the invocation claimed and
\* failed to deliver, with its id, its trial id and the stored reason.
C25_SummaryConsistent ==
    \A s \in Sweeps :
        (sweep[s].pc = "loop" /\ sweep[s].i > Len(sweep[s].due))
        => LET sum == Summary(s)
           IN /\ sum.emailsAttemptedCount = sum.emailsSentCount + sum.failedCount
              /\ sum.emailsAttemptedCount <= sum.remindersProcessedCount
              /\ sum.emailsAttemptedCount = Cardinality(sweep[s].claimed)
              /\ Len(sum.failures) = sum.failedCount
              /\ \A k \in DOMAIN sum.failures :
                    LET f == sum.failures[k]
                    IN /\ f.reminderId \in sweep[s].claimed
                       /\ StatusOf(f.reminderId) = "FAILED"
                       /\ f.trialId = TrialOf(f.reminderId)
                       /\ reminders[f.reminderId].lastError = << f.reason >>
                       /\ \A j \in DOMAIN sum.failures :
                            j # k => sum.failures[j].reminderId # f.reminderId
              /\ \A r \in sweep[s].claimed :
                    StatusOf(r) = "FAILED"
                    => \E k \in DOMAIN sum.failures : sum.failures[k].reminderId = r

\* C25 witness: an invocation is about to return a summary with two
\* attempts, one sent and one failed
C25_Witness ==
    \E s \in Sweeps :
        /\ sweep[s].pc = "loop"
        /\ sweep[s].i > Len(sweep[s].due)
        /\ sweep[s].emailsSent = 1
        /\ sweep[s].failedCount = 1

\* C28: no step deletes a reminder or changes its remindAt, type, trialId
\* or userId; and a step of a sweep changes no trial row, no user row and no
\* reminder but the one its loop is at, which was due at the `now` of the
\* sweep and whose trial was not CANCELED when the due list was fetched.
C28_FrameOfSweep ==
    [][/\ \A r \in DOMAIN reminders :
            /\ r \in DOMAIN reminders'
            /\ reminders'[r].remindAt = reminders[r].remindAt
            /\ reminders'[r].type = reminders[r].type
            /\ reminders'[r].trialId = reminders[r].trialId
            /\ reminders'[r].userId = reminders[r].userId
       /\ sweep' # sweep
            => /\ trials' = trials
               /\ users' = users
               /\ DOMAIN reminders' = DOMAIN reminders
               /\ \A r \in DOMAIN reminders :
                    reminders'[r] # reminders[r]
                    => \E s \in Sweeps :
                        /\ sweep'[s] # sweep[s]
                        /\ sweep[s].pc \in {"loop", "mark"}
                        /\ sweep[s].due[sweep[s].i].id = r
                        /\ reminders[r].remindAt <= sweep[s].now
                        /\ TrialOf(r) \notin sweep[s].fetchCanceled]_vars

\* C28 witness: an invocation has claimed a reminder and finished its loop
\* while another reminder, due after the `now` of the sweep, is PENDING
C28_Witness ==
    \E s \in Sweeps : \E r1, r2 \in DOMAIN reminders :
        /\ sweep[s].pc = "loop"
        /\ sweep[s].i > Len(sweep[s].due)
        /\ r1 \in sweep[s].claimed
        /\ reminders[r2].remindAt > sweep[s].now
        /\ StatusOf(r2) = "PENDING"

----------------------------------------------------------------------------
(* The shape of a plan: claim C26 (specification SpecPlan)                 *)

----------------------------------------------------------------------------
(* Labels and offsets: claim C27 (specification SpecMail)                  *)

\* the offset, in hours, that the claim assigns to a type label
HoursOfLabel ==
    [THREE_DAYS |-> 72, ONE_DAY |-> 24, TWENTY_FOUR_HOURS |-> 24,
     SIX_HOURS |-> 6, THREE_HOURS |-> 3, ONE_HOUR |-> 1]

\* the time left, in hours, that the sentences of server/email.ts name
\* ("tomorrow" read as 24 hours)
PhraseHours ==
    ("That's in about 1 hour!" :> 1) @@ ("That's in about 3 hours!" :> 3)
    @@ ("That's in about 6 hours!" :> 6) @@ ("That's tomorrow!" :> 24)
    @@ ("That's in 3 days." :> 72)

\* the time left, in hours, that the subjects of the other email module name
SubjectHours ==
    ("renews in 1 day" :> 24) @@ ("renews in 2 days" :> 48)
    @@ ("renews in 3 days" :> 72)

HoursNamed(text) ==
    IF text \in DOMAIN PhraseHours THEN PhraseHours[text] ELSE SubjectHours[text]

\* C27: every entry of a plan lies before the end instant by the offset of
\* its type label (THREE_DAYS 72h, ONE_DAY and TWENTY_FOUR_HOURS 24h,
\* SIX_HOURS 6h, THREE_HOURS 3h, ONE_HOUR 1h), and the email built for a
\* reminder names, as the time left, the offset of the reminder's label.
C27_LabelNamesOffset ==
    /\ \A t \in DOMAIN planLog : \A k \in DOMAIN planLog[t].plan :
          LoggedEnd(t) - planLog[t].plan[k].remindAt
              = HoursOfLabel[planLog[t].plan[k].type] * SecondsPerHour
    /\ \A r \in DOMAIN reminders :
          hist[r].said # ""
          => HoursNamed(hist[r].said) = HoursOfLabel[reminders[r].type]

----------------------------------------------------------------------------
(* Progress of the sweep: claim C29 (specification SpecLive)               *)

\* C29: when the cron sweep keeps being invoked and storage and sender calls
\* return, a reminder that is PENDING, due (remindAt <= now) and of an ACTIVE
\* trial eventually leaves PENDING, that is, becomes SENT, FAILED or SKIPPED.
C29_DueReminderLeavesPending ==
    \A r \in ReminderIds :
        (/\ r \in DOMAIN reminders
         /\ reminders[r].status = "PENDING"
         /\ reminders[r].remindAt <= clock
         /\ trials[reminders[r].trialId].status = "ACTIVE")
        ~> (/\ r \in DOMAIN reminders
            /\ reminders[r].status \in {"SENT", "FAILED", "SKIPPED"})

\* C29 witness: the reminder that fell due at the last instant of the clock
\* was handled by a sweep started at that instant, which has returned
C29_Witness ==
    \E r \in DOMAIN reminders :
        /\ reminders[r].type = "ONE_DAY"
        /\ reminders[r].remindAt = clock
        /\ StatusOf(r) \in {"SENT", "FAILED"}
        /\ hist[r].invoked = 1
        /\ sweep["cron"].pc = "idle"

----------------------------------------------------------------------------
(* Failed creation: claim C30 (specification SpecCreation)                 *)

\* the reminder rows of a trial
RemindersOf(t) == {r \in DOMAIN reminders : reminders[r].trialId = t}

\* C30: a POST /api/trials that answered 500 has left no trial row (and so
\* no reminder row), and every trial whose creation request is over has as
\* many reminders as its plan has entries.
C30_FailedCreateLeavesNothing ==
    /\ \A c \in DOMAIN creator :
          (creator[c].pc = "idle" /\ creator[c].response = "500")
          => /\ creator[c].trialId \notin DOMAIN trials
             /\ RemindersOf(creator[c].trialId) = {}
    /\ \A t \in DOMAIN trials :
          (\A c \in DOMAIN creator :
              ~(creator[c].pc = "reminders" /\ creator[c].trialId = t))
          => Cardinality(RemindersOf(t)) = Len(planLog[t].plan)

====
